---- MODULE Spec2Model ----
(***************************************************************************)
(* Model of the bevy_migrate tool: the migration orchestrator              *)
(* (core/migration_engine.py), the step template                           *)
(* (migrations/base_migration.py), the per-step hooks (migrations/*.py)    *)
(* and the transformation engine (core/ast_processor.py).                  *)
(*                                                                         *)
(* Source text is modelled as a sequence of tokens; the texts and patterns *)
(* are chosen so that no pattern matches inside a token or across a token  *)
(* boundary, hence a character-level search for a pattern and the          *)
(* token-level search coincide.  A Cargo.toml is a token sequence too: a   *)
(* token that is a version string stands for the line  bevy = "<version>". *)
(***************************************************************************)
EXTENDS Integers, Sequences, FiniteSets, TLC

(***************************************************************************)
(* Version tables of MigrationEngine                                       *)
(***************************************************************************)

\* supported_versions of _validate_versions, in order
SupportedVersions == <<"0.12", "0.13", "0.14", "0.15", "0.16", "0.17", "0.18">>

\* a variant of the map that goes from 0.14 to 0.15 at once, past the
\* intermediate tag the registry knows
VersionProgressionSkipping ==
  [v \in {"0.12", "0.13", "0.14", "0.15-part1", "0.15", "0.16",
          "0.17-part1", "0.17-part2", "0.17"} |->
     CASE v = "0.12" -> "0.13"
       [] v = "0.13" -> "0.14"
       [] v = "0.14" -> "0.15"
       [] v = "0.15-part1" -> "0.15"
       [] v = "0.15" -> "0.16"
       [] v = "0.16" -> "0.17-part1"
       [] v = "0.17-part1" -> "0.17-part2"
       [] v = "0.17-part2" -> "0.17"
       [] v = "0.17" -> "0.18"]

\* self._version_progression
VersionProgression ==
  [v \in {"0.12", "0.13", "0.14", "0.15-part1", "0.15", "0.16",
          "0.17-part1", "0.17-part2", "0.17"} |->
     CASE v = "0.12" -> "0.13"
       [] v = "0.13" -> "0.14"
       [] v = "0.14" -> "0.15-part1"
       [] v = "0.15-part1" -> "0.15"
       [] v = "0.15" -> "0.16"
       [] v = "0.16" -> "0.17-part1"
       [] v = "0.17-part1" -> "0.17-part2"
       [] v = "0.17-part2" -> "0.17"
       [] v = "0.17" -> "0.18"]

\* keys of self._migration_registry, a key "A->B" written <<A, B>>
MigrationRegistry ==
  { <<"0.12", "0.13">>, <<"0.13", "0.14">>, <<"0.14", "0.15-part1">>,
    <<"0.15-part1", "0.15">>, <<"0.15", "0.16">>, <<"0.16", "0.17-part1">>,
    <<"0.17-part1", "0.17-part2">>, <<"0.17-part2", "0.17">>,
    <<"0.17", "0.18">> }

\* the "len(path) > 10" guard of _get_migration_path
MaxPathLen == 10

\* every tag the version tables mention, in chain order
ChainTags == <<"0.12", "0.13", "0.14", "0.15-part1", "0.15", "0.16",
               "0.17-part1", "0.17-part2", "0.17", "0.18">>

\* a tag no table mentions
UnknownTag == "0.19"

AllTags == {ChainTags[i] : i \in 1..Len(ChainTags)} \cup {UnknownTag}

SeqRange(s) == {s[i] : i \in 1..Len(s)}

IndexOf(s, x) == CHOOSE i \in 1..Len(s) : s[i] = x

\* a variant of _validate_versions with ">" for ">=" in the order check
ValidateVersionsLax(fromV, toV) ==
  IF fromV \notin SeqRange(SupportedVersions) THEN FALSE
  ELSE IF toV \notin SeqRange(SupportedVersions) THEN FALSE
  ELSE IF IndexOf(SupportedVersions, fromV) > IndexOf(SupportedVersions, toV)
       THEN FALSE
  ELSE TRUE

\* _validate_versions
ValidateVersions(fromV, toV) ==
  IF fromV \notin SeqRange(SupportedVersions) THEN FALSE
  ELSE IF toV \notin SeqRange(SupportedVersions) THEN FALSE
  ELSE IF IndexOf(SupportedVersions, fromV) >= IndexOf(SupportedVersions, toV)
       THEN FALSE
  ELSE TRUE

RECURSIVE PathLoop(_, _, _, _)
\* the while loop of _get_migration_path
PathLoop(prog, path, cur, toV) ==
  IF cur = toV THEN path
  ELSE IF cur \notin DOMAIN prog THEN <<>>
  ELSE LET p2 == Append(path, <<cur, prog[cur]>>)
       IN IF Len(p2) > MaxPathLen THEN <<>>
          ELSE PathLoop(prog, p2, prog[cur], toV)

RECURSIVE PathLoopKeeping(_, _, _, _)
\* a variant of the loop that returns the steps walked so far where the
\* progression ends before the target is reached
PathLoopKeeping(prog, path, cur, toV) ==
  IF cur = toV THEN path
  ELSE IF cur \notin DOMAIN prog THEN path
  ELSE LET p2 == Append(path, <<cur, prog[cur]>>)
       IN IF Len(p2) > MaxPathLen THEN <<>>
          ELSE PathLoopKeeping(prog, p2, prog[cur], toV)

GetMigrationPathKeeping(prog, fromV, toV) == PathLoopKeeping(prog, <<>>, fromV, toV)

\* _get_migration_path
GetMigrationPath(prog, fromV, toV) == PathLoop(prog, <<>>, fromV, toV)

(***************************************************************************)
(* Tokens, rules and files of the transformation engine                    *)
(***************************************************************************)

\* single metavariables ($NAME) that patterns of the catalog use
SingleMeta == {"$A", "$VAL", "$ENTITY", "$X", "$Y", "$Z"}

\* the anonymous single metavariable
WildMeta == "$_"

\* multi metavariables ($$$NAME)
MultiMeta == {"$$$ARGS"}

\* the identifier that follows "$$$" in a multi metavariable
MultiName(tok) == CASE tok = "$$$ARGS" -> "ARGS"

\* the line break, which "." of a regular expression does not match
NL == "NL"

\* ASTTransformation: the fields the engine reads
Rule(pat, repl, desc, fps, cb) ==
  [pattern |-> pat, replacement |-> repl, description |-> desc,
   file_patterns |-> fps, callback |-> cb]

\* the default of ASTTransformation.file_patterns
DefaultFilePatterns == <<"*.rs">>

\* project files: the path relative to the project root and the bare name
RsMain == "src/main.rs"
RsLib == "src/lib.rs"
CargoToml == "Cargo.toml"

\* MigrationEngine.backup_dir: the default project_path / "migration_backup",
\* a directory of the caller's choice inside the project tree and one outside it
DefaultBackupDir == "migration_backup"
CallerBackupDir == "backups"
OutsideBackupDir == "/var/backups"
BackupDirs == {DefaultBackupDir, CallerBackupDir, OutsideBackupDir}

\* dest_path = backup_path / file_pattern: where the copy of a project file is
CopyPath(dir, f) == dir \o "/" \o f

\* the copies of the Rust files and of the manifest under any backup directory
RsCopies == {CopyPath(dir, f) : dir \in BackupDirs, f \in {RsMain, RsLib}}
CargoCopies == {CopyPath(dir, CargoToml) : dir \in BackupDirs}

\* the project file a copy is the copy of
OrigOf(p) ==
  CHOOSE f \in {RsMain, RsLib, CargoToml} : \E dir \in BackupDirs : CopyPath(dir, f) = p

FileName(f) ==
  CASE f = RsMain -> "main.rs"
    [] f = RsLib -> "lib.rs"
    [] f = CargoToml -> "Cargo.toml"
    [] f \in RsCopies \cup CargoCopies ->
         (IF OrigOf(f) = RsMain THEN "main.rs"
          ELSE IF OrigOf(f) = RsLib THEN "lib.rs" ELSE "Cargo.toml")

\* fnmatch.fnmatch on the names and globs of the model ("*" also spans "/")
FnMatch(name, glob) ==
  CASE glob = "*.rs" -> name \in {"main.rs", "lib.rs", "src/main.rs", "src/lib.rs"} \cup RsCopies
    [] glob = "src/*.rs" -> name \in {"src/main.rs", "src/lib.rs"}
    [] glob = "main.rs" -> name = "main.rs"
    [] glob = "lib.rs" -> name = "lib.rs"
    [] glob = "Cargo.toml" -> name = "Cargo.toml"
    [] glob = "*.toml" -> name = "Cargo.toml" \/ name \in CargoCopies
    [] OTHER -> FALSE

\* a variant of the file filter that lets every rule through
ShouldApplyTransformationAlways(f, rule) == TRUE

\* _should_apply_transformation
ShouldApplyTransformation(f, rule) ==
  \E i \in 1..Len(rule.file_patterns) :
     \/ FnMatch(FileName(f), rule.file_patterns[i])
     \/ FnMatch(f, rule.file_patterns[i])

(***************************************************************************)
(* The regex fallback                                                      *)
(***************************************************************************)

\* pattern.replace("$_", r"(\w+)") then pattern.replace("$$$", r"(.*?)"), on
\* one token: the raw group texts are now part of the pattern string
RawGroups(tok) ==
  IF tok = WildMeta THEN <<[kind |-> "rawword", tok |-> "(\\w+)"]>>
  ELSE IF tok \in MultiMeta
       THEN <<[kind |-> "rawlazy", tok |-> "(.*?)"],
              [kind |-> "text", tok |-> MultiName(tok)]>>
  ELSE <<[kind |-> "text", tok |-> tok]>>

RECURSIVE RawPattern(_)
\* the two replace calls along the pattern
RawPattern(pattern) ==
  IF pattern = <<>> THEN <<>>
  ELSE RawGroups(Head(pattern)) \o RawPattern(Tail(pattern))

\* re.escape: every character is taken literally, those of the raw groups too
Escaped(item) ==
  [kind |-> IF item.kind = "rawword" THEN "escword"
            ELSE IF item.kind = "rawlazy" THEN "esclazy" ELSE "lit",
   tok |-> item.tok]

\* the two restoring replace calls: the search string of the first one,
\* r"\(\\\w\+\)", is not the escaped form \(\\w\+\) of (\w+), so only the
\* lazy group is restored and an escaped (\w+) stays a literal
Restored(item) ==
  IF item.kind = "esclazy" THEN [kind |-> "lazy", tok |-> ""]
  ELSE [kind |-> "lit", tok |-> item.tok]

\* _convert_ast_pattern_to_regex
ConvertAstPatternToRegex(pattern) ==
  LET raw == RawPattern(pattern)
  IN [i \in 1..Len(raw) |-> Restored(Escaped(raw[i]))]

RECURSIVE MatchAt(_, _, _, _)
RECURSIVE LazyFrom(_, _, _, _, _)
\* the end (index after the last token) of the match of re[k..] at text[i..],
\* in backtracking order, or -1
MatchAt(re, k, text, i) ==
  IF k > Len(re) THEN i
  ELSE IF re[k].kind = "lit"
       THEN IF i <= Len(text) /\ text[i] = re[k].tok
            THEN MatchAt(re, k + 1, text, i + 1) ELSE -1
  ELSE LazyFrom(re, k, text, i, 0)

\* the lazy group (.*?) having taken n tokens, none of them a line break
LazyFrom(re, k, text, i, n) ==
  LET r == MatchAt(re, k + 1, text, i + n)
  IN IF r # -1 THEN r
     ELSE IF i + n <= Len(text) /\ text[i + n] # NL
          THEN LazyFrom(re, k, text, i, n + 1) ELSE -1

RECURSIVE SubFrom(_, _, _, _)
\* re.sub from position pos on: leftmost, non-overlapping matches, each
\* replaced by the template (which holds no backslash, hence no group
\* reference); the patterns of the model hold a literal and match no empty span
SubFrom(re, repl, text, pos) ==
  IF pos > Len(text) THEN <<>>
  ELSE LET e == MatchAt(re, 1, text, pos)
       IN IF e > pos THEN repl \o SubFrom(re, repl, text, e)
          ELSE <<text[pos]>> \o SubFrom(re, repl, text, pos + 1)

\* _apply_regex_transformation
ApplyRegexTransformation(content, rule) ==
  SubFrom(ConvertAstPatternToRegex(rule.pattern), rule.replacement, content, 1)

(***************************************************************************)
(* The structural backend (the external ast-grep process)                  *)
(***************************************************************************)

\* how one call of the external process can end: exit code 0, a non-zero
\* exit code, an exception raised around the call (subprocess.TimeoutExpired
\* and any other), and, where the JSON of "scan --json" is parsed, output
\* that json.loads or the match access rejects
BackendOutcomes(rule) ==
  IF rule.callback # "none" THEN {"ok", "nonzero", "timeout", "malformed"}
  ELSE {"ok", "nonzero", "timeout"}

\* the callbacks of the catalog: the number of parameters of the function
CallbackArity(cb) ==
  CASE cb = "my_callback" -> 2
    [] cb \in {"camera_hdr_callback", "ui_transform_callback"} -> 3
    [] OTHER -> 2

\* the text a callback returns for the single captures it is given
CallbackText(cb, metaVars) ==
  CASE cb = "my_callback" ->
         <<"RESULT_">> \o (IF "$VAL" \in DOMAIN metaVars THEN <<metaVars["$VAL"]>> ELSE <<>>)
    [] OTHER -> <<>>

IsMetaTok(tok) == tok \in SingleMeta \/ tok = WildMeta

\* whether the pattern matches the nodes text[s .. s + Len(pattern) - 1]:
\* a single metavariable takes one node, equal names take equal nodes
StructMatchAt(pattern, text, s) ==
  /\ s + Len(pattern) - 1 <= Len(text)
  /\ \A k \in 1..Len(pattern) :
        IsMetaTok(pattern[k]) \/ text[s + k - 1] = pattern[k]
  /\ \A k, l \in 1..Len(pattern) :
        (pattern[k] \in SingleMeta /\ pattern[k] = pattern[l])
           => text[s + k - 1] = text[s + l - 1]

RECURSIVE StructMatches(_, _, _)
\* the start offsets of the matches ast-grep reports, left to right
StructMatches(pattern, text, pos) ==
  IF pos > Len(text) THEN <<>>
  ELSE IF StructMatchAt(pattern, text, pos)
       THEN <<pos>> \o StructMatches(pattern, text, pos + Len(pattern))
  ELSE StructMatches(pattern, text, pos + 1)

\* metaVariables.single of the match at s
SingleBindings(pattern, text, s) ==
  [m \in {pattern[k] : k \in {j \in 1..Len(pattern) : pattern[j] \in SingleMeta}} |->
     text[s + (CHOOSE k \in 1..Len(pattern) : pattern[k] = m) - 1]]

\* the fix template with the captures filled in
FillTemplate(fix, b) ==
  [i \in 1..Len(fix) |-> IF fix[i] \in DOMAIN b THEN b[fix[i]] ELSE fix[i]]

\* a pattern of the model holds at most one multi metavariable, and then no
\* single one
HasMulti(pattern) == \E k \in 1..Len(pattern) : pattern[k] \in MultiMeta

MultiPos(pattern) == CHOOSE k \in 1..Len(pattern) : pattern[k] \in MultiMeta

\* how many nodes the multi metavariable takes in the match at s (zero or
\* more, up to the first place where the rest of the pattern matches), or -1
MultiTake(pattern, text, s) ==
  LET m == MultiPos(pattern)
      ns == {n \in 0..Len(text) :
               /\ StructMatchAt(SubSeq(pattern, 1, m - 1), text, s)
               /\ StructMatchAt(SubSeq(pattern, m + 1, Len(pattern)), text, s + m - 1 + n)}
  IN IF ns = {} THEN -1 ELSE CHOOSE n \in ns : \A n2 \in ns : n <= n2

\* the end (index after the last node) of the match at s, or -1
StructEnd(pattern, text, s) ==
  IF HasMulti(pattern)
  THEN IF MultiTake(pattern, text, s) = -1 THEN -1
       ELSE s + Len(pattern) - 1 + MultiTake(pattern, text, s)
  ELSE IF StructMatchAt(pattern, text, s) THEN s + Len(pattern) ELSE -1

\* metaVariables.multi of the match at s: the nodes the multi metavariable took
MultiBindings(pattern, text, s) ==
  [m \in {pattern[k] : k \in {j \in 1..Len(pattern) : pattern[j] \in MultiMeta}} |->
     SubSeq(text, s + MultiPos(pattern) - 1,
            s + MultiPos(pattern) - 2 + MultiTake(pattern, text, s))]

RECURSIVE FillMulti(_, _)
\* the multi captures filled into the fix
FillMulti(fix, mb) ==
  IF fix = <<>> THEN <<>>
  ELSE (IF Head(fix) \in DOMAIN mb THEN mb[Head(fix)] ELSE <<Head(fix)>>)
         \o FillMulti(Tail(fix), mb)

RECURSIVE RewriteFrom(_, _, _, _)
\* "scan --update-all": every match replaced by the filled fix
RewriteFrom(pattern, fix, text, pos) ==
  IF pos > Len(text) THEN <<>>
  ELSE IF StructEnd(pattern, text, pos) # -1
       THEN FillMulti(FillTemplate(fix, SingleBindings(pattern, text, pos)),
                      MultiBindings(pattern, text, pos))
              \o RewriteFrom(pattern, fix, text, StructEnd(pattern, text, pos))
  ELSE <<text[pos]>> \o RewriteFrom(pattern, fix, text, pos + 1)

\* meta_vars, the dictionary a callback is called with for the match at s: the
\* entries of metaVariables.single and nothing else
CallbackMetaVars(pattern, text, s) == SingleBindings(pattern, text, s)

\* a variant of the sort that leaves the matches in ascending start order
Ascending(s) == s

\* matches.sort(key=start, reverse=True)
Reversed(s) == [i \in 1..Len(s) |-> s[Len(s) + 1 - i]]

RECURSIVE SpliceAll(_, _, _, _, _)
\* the splice loop: new[:start] + replacement + new[end:] per match, k-th of ms
SpliceAll(cb, pattern, text, ms, cur) ==
  IF ms = <<>> THEN cur
  ELSE LET s == Head(ms)
           e == s + Len(pattern)
           repl == CallbackText(cb, CallbackMetaVars(pattern, text, s))
       IN SpliceAll(cb, pattern, text, Tail(ms),
                    SubSeq(cur, 1, s - 1) \o repl \o SubSeq(cur, e, Len(cur)))

None == [some |-> FALSE, text |-> <<>>]
Some(t) == [some |-> TRUE, text |-> t]

\* _apply_ast_grep_transformation
ApplyAstGrepTransformation(content, rule, outcome) ==
  IF rule.callback # "none"
  THEN IF outcome = "ok"
       THEN LET ms == StructMatches(rule.pattern, content, 1)
            IN IF ms = <<>> THEN Some(content)
               ELSE IF CallbackArity(rule.callback) # 2 THEN None
               ELSE Some(SpliceAll(rule.callback, rule.pattern, content,
                                   Reversed(ms), content))
       ELSE None
  ELSE IF outcome = "ok"
       THEN Some(RewriteFrom(rule.pattern, rule.replacement, content, 1))
       ELSE None

\* a variant of _apply_single_transformation without the fallback: the
\* content is kept where the backend call did not go through
ApplySingleTransformationNoFallback(content, rule, avail, outcome) ==
  IF avail
  THEN LET r == ApplyAstGrepTransformation(content, rule, outcome)
       IN IF r.some THEN r.text ELSE content
  ELSE ApplyRegexTransformation(content, rule)

\* _apply_single_transformation
ApplySingleTransformation(content, rule, avail, outcome) ==
  IF avail
  THEN LET r == ApplyAstGrepTransformation(content, rule, outcome)
       IN IF r.some THEN r.text ELSE ApplyRegexTransformation(content, rule)
  ELSE ApplyRegexTransformation(content, rule)

\* what served the call: the structural backend or the regex fallback
ServedBy(content, rule, avail, outcome) ==
  IF avail /\ ApplyAstGrepTransformation(content, rule, outcome).some
  THEN "structural" ELSE "regex"

RECURSIVE IndependentLoop(_, _, _, _, _, _, _)
\* a variant of the loop that gives every rule the text the loop started with
IndependentLoop(rules, k, f, avail, outs, orig, acc) ==
  IF k > Len(rules) THEN acc
  ELSE IF ShouldApplyTransformation(f, rules[k])
       THEN LET new == ApplySingleTransformation(orig, rules[k], avail, outs[k])
                call == [rule |-> k, input |-> orig, output |-> new,
                         outcome |-> IF avail THEN outs[k] ELSE "unavailable",
                         served |-> ServedBy(orig, rules[k], avail, outs[k])]
            IN IndependentLoop(rules, k + 1, f, avail, outs, orig,
                 IF new # orig
                 THEN [text |-> new,
                       applied |-> Append(acc.applied, rules[k].description),
                       calls |-> Append(acc.calls, call)]
                 ELSE [acc EXCEPT !.calls = Append(acc.calls, call)])
  ELSE IndependentLoop(rules, k + 1, f, avail, outs, orig, acc)

TransformLoopIndependent(rules, k, f, avail, outs, acc) ==
  IndependentLoop(rules, k, f, avail, outs, acc.text, acc)

RECURSIVE TransformLoopRecordingAll(_, _, _, _, _, _)
\* a variant of the loop that records every rule it has called, whether or
\* not the text changed
TransformLoopRecordingAll(rules, k, f, avail, outs, acc) ==
  IF k > Len(rules) THEN acc
  ELSE IF ShouldApplyTransformation(f, rules[k])
       THEN LET new == ApplySingleTransformation(acc.text, rules[k], avail, outs[k])
                call == [rule |-> k, input |-> acc.text, output |-> new,
                         outcome |-> IF avail THEN outs[k] ELSE "unavailable",
                         served |-> ServedBy(acc.text, rules[k], avail, outs[k])]
            IN TransformLoopRecordingAll(rules, k + 1, f, avail, outs,
                 [text |-> new,
                  applied |-> Append(acc.applied, rules[k].description),
                  calls |-> Append(acc.calls, call)])
  ELSE TransformLoopRecordingAll(rules, k + 1, f, avail, outs, acc)

RECURSIVE TransformLoop(_, _, _, _, _, _)
\* the "for transformation in transformations" loop of _process_file; outs[k]
\* is how the backend call of the k-th rule ends, acc the loop's variables
TransformLoop(rules, k, f, avail, outs, acc) ==
  IF k > Len(rules) THEN acc
  ELSE IF ShouldApplyTransformation(f, rules[k])
       THEN LET new == ApplySingleTransformation(acc.text, rules[k], avail, outs[k])
                call == [rule |-> k, input |-> acc.text, output |-> new,
                         outcome |-> IF avail THEN outs[k] ELSE "unavailable",
                         served |-> ServedBy(acc.text, rules[k], avail, outs[k])]
            IN TransformLoop(rules, k + 1, f, avail, outs,
                 IF new # acc.text
                 THEN [text |-> new,
                       applied |-> Append(acc.applied, rules[k].description),
                       calls |-> Append(acc.calls, call)]
                 ELSE [acc EXCEPT !.calls = Append(acc.calls, call)])
  ELSE TransformLoop(rules, k + 1, f, avail, outs, acc)

(***************************************************************************)
(* The step catalog                                                        *)
(***************************************************************************)

\* get_transformations of the registered step classes: per step one rule of
\* its catalog (the catalogs are data, several hundred renames of this
\* shape), and for the two steps that have them a callback rule, whose
\* replacement is the empty string
StepRules(key) ==
  CASE key = <<"0.12", "0.13">> ->
         <<Rule(<<"ReadOnlyWorldQuery">>, <<"QueryFilter">>,
                "Rename ReadOnlyWorldQuery to QueryFilter", DefaultFilePatterns, "none")>>
    [] key = <<"0.13", "0.14">> ->
         <<Rule(<<"NoOpTypeIdHash">>, <<"NoOpHash">>,
                "Rename NoOpTypeIdHash to NoOpHash", DefaultFilePatterns, "none")>>
    [] key = <<"0.14", "0.15-part1">> ->
         <<Rule(<<"DebugName">>, <<"NameOrEntity">>,
                "Rename DebugName type to NameOrEntity", DefaultFilePatterns, "none")>>
    [] key = <<"0.15-part1", "0.15">> ->
         <<Rule(<<"Camera2dBundle::default()">>, <<"Camera2d">>,
                "Replace Camera2dBundle::default() with Camera2d", DefaultFilePatterns, "none")>>
    [] key = <<"0.15", "0.16">> ->
         <<Rule(<<"app.add_plugin(", "$_", ")">>, <<"app.add_plugins(", "$_", ")">>,
                "Update add_plugin to add_plugins for single plugin", DefaultFilePatterns, "none")>>
    [] key = <<"0.16", "0.17-part1">> ->
         <<Rule(<<"OnAdd">>, <<"Add">>, "OnAdd renamed to Add", DefaultFilePatterns, "none")>>
    [] key = <<"0.17-part1", "0.17-part2">> ->
         <<Rule(<<"PickSet">>, <<"PickingSystems">>, "PickSet -> PickingSystems",
                DefaultFilePatterns, "none"),
           Rule(<<"Camera { hdr: true">>, <<>>, "Camera.hdr split into Hdr component",
                DefaultFilePatterns, "camera_hdr_callback")>>
    [] key = <<"0.17-part2", "0.17">> ->
         <<Rule(<<"Transform::from_xyz(", "$X", ",", "$Y", ",", "$Z", ")">>, <<>>,
                "UI nodes use UiTransform instead of Transform",
                DefaultFilePatterns, "ui_transform_callback"),
           Rule(<<"JustifyText">>, <<"Justify">>, "JustifyText renamed to Justify",
                DefaultFilePatterns, "none")>>
    [] key = <<"0.17", "0.18">> ->
         <<Rule(<<"EntityRow">>, <<"EntityIndex">>, "EntityRow renamed to EntityIndex",
                DefaultFilePatterns, "none")>>

\* get_affected_patterns of the registered step classes
AffectedPatterns(key) ==
  IF key \in {<<"0.16", "0.17-part1">>, <<"0.17-part1", "0.17-part2">>}
  THEN <<"**/*.rs", "src/**/*.rs", "examples/**/*.rs", "benches/**/*.rs", "tests/**/*.rs">>
  ELSE IF key = <<"0.13", "0.14">>
  THEN <<"**/*.rs", "src/**/*.rs", "examples/**/*.rs", "benches/**/*.rs", "tests/**/*.rs",
         "**/*.wgsl", "Cargo.toml">>
  ELSE <<"**/*.rs", "src/**/*.rs", "examples/**/*.rs", "benches/**/*.rs", "tests/**/*.rs",
         "Cargo.toml">>

(***************************************************************************)
(* The project on disk                                                     *)
(***************************************************************************)

\* how many Rust source files a project of the model holds at most
MaxRsFiles == 1

\* how many rules a rule list given to the engine holds at most
MaxRules == 2

\* the Rust files of a project, in the order sorted() gives them
RsFileList == SubSeq(<<RsLib, RsMain>>, 1, IF MaxRsFiles < 2 THEN MaxRsFiles ELSE 2)
RsFiles == SeqRange(RsFileList)
AllFiles == RsFiles \cup {CargoToml}

\* the content of a path that holds no file
Absent == <<"<absent>">>

\* the tokens of a Cargo.toml that stand for  bevy = "<version>"
VersionToks == {"0.12", "0.13", "0.14", "0.15", "0.16", "0.17", "0.18"}

\* the source texts and manifests a project of the model starts with
InitTexts ==
  { <<"fn", "main">>,
    <<"#[derive(WorldQuery)]", "ReadOnlyWorldQuery", "NoOpTypeIdHash", "DebugName",
      "OnAdd", "EntityRow">> }

InitManifests ==
  { Absent, <<"[package]">>, <<"[package]", "0.14">>, <<"[package]", "0.17", "animation">> }

(***************************************************************************)
(* State                                                                   *)
(***************************************************************************)

VARIABLES
  dryRun,       \* MigrationEngine.dry_run, handed to every step and processor
  astAvail,     \* ast_grep_available: what the probe of every ASTProcessor finds
  srcDir,       \* whether project_path/src exists
  disk,         \* the project files: path -> content (Absent: no such file)
  disk0,        \* history: the project files before the run
  backup,       \* what _create_backup has put under backup_dir
  hookBackup,   \* what backup_files of the pre-hooks has copied
  pc,           \* where the run is
  fromV,        \* from_version of the call
  toV,          \* to_version of the call
  path,         \* migration_steps
  stepIdx,      \* the position of the for loop of migrate in migration_steps
  rules,        \* the transformations given to apply_transformations
  files,        \* the file_paths given to apply_transformations
  fileIdx,      \* the position of the for loop of apply_transformations
  results,      \* the results list of apply_transformations
  calls,        \* history: per result, what raised and the backend calls made
  events,       \* history: what the run has done, in order
  result,       \* what migrate has returned ("none" while it runs)
  progression,  \* MigrationEngine._version_progression
  backupDir     \* MigrationEngine.backup_dir

vars == <<dryRun, astAvail, srcDir, disk, disk0, backup, hookBackup, pc, fromV, toV,
          path, stepIdx, rules, files, fileIdx, results, calls, events, result,
          progression, backupDir>>

NoBackup == [made |-> FALSE, content |-> [f \in AllFiles |-> Absent]]

NoHookBackup == [f \in AllFiles |-> Absent]

Ev(kind, step, file, text) == [kind |-> kind, step |-> step, file |-> file, text |-> text]

\* the projects a run of the model starts from
Projects ==
  { d \in [AllFiles -> InitTexts \cup InitManifests] :
      /\ d[CargoToml] \in InitManifests
      /\ \A f \in RsFiles : d[f] \in InitTexts \cup {Absent} }

Init ==
  /\ dryRun \in BOOLEAN
  /\ astAvail \in BOOLEAN
  /\ disk \in Projects
  /\ disk0 = disk
  /\ srcDir \in BOOLEAN
  /\ (\E f \in RsFiles : disk[f] # Absent) => srcDir
  /\ backup = NoBackup
  /\ hookBackup = NoHookBackup
  /\ pc = "idle"
  /\ fromV = "" /\ toV = ""
  /\ path = <<>>
  /\ stepIdx = 0
  /\ rules = <<>>
  /\ files = <<>>
  /\ fileIdx = 0
  /\ results = <<>>
  /\ calls = <<>>
  /\ events = <<>>
  /\ result = "none"
  /\ progression = VersionProgression
  /\ backupDir = DefaultBackupDir

(***************************************************************************)
(* MigrationEngine.migrate and get_migration_summary                       *)
(***************************************************************************)

\* the re.sub calls that set the version of the bevy dependency
SetBevyVersion(text, v) ==
  [i \in 1..Len(text) |-> IF text[i] \in VersionToks THEN v ELSE text[i]]

\* re.search for a bevy dependency line
HasBevyDependency(text) == \E i \in 1..Len(text) : text[i] \in VersionToks

\* _update_project_version
UpdateProjectVersion(d, v) ==
  IF d[CargoToml] = Absent THEN d
  ELSE IF HasBevyDependency(d[CargoToml])
       THEN [d EXCEPT ![CargoToml] = SetBevyVersion(d[CargoToml], v)]
  ELSE d

\* migrate returns
Return(value, evs) ==
  /\ pc' = "returned"
  /\ result' = value
  /\ events' = events \o evs

\* a variant of migrate that goes on to the steps when the copy failed
MigrateIgnoringBackup(f, t, bok) ==
  /\ pc = "idle"
  /\ UNCHANGED <<progression, backupDir>>
  /\ fromV' = f /\ toV' = t
  /\ UNCHANGED <<dryRun, astAvail, srcDir, disk, disk0, hookBackup, rules, files,
                 fileIdx, results, calls>>
  /\ IF ~ValidateVersions(f, t)
     THEN /\ Return("False", <<Ev("versions_rejected", 0, "", <<>>)>>)
          /\ UNCHANGED <<backup, path, stepIdx>>
     ELSE LET steps == GetMigrationPath(progression, f, t)
              made == ~dryRun /\ bok
              evs == IF dryRun THEN <<>>
                     ELSE IF bok THEN <<Ev("backup", 0, "", <<>>)>>
                     ELSE <<Ev("backup_failed", 0, "", <<>>)>>
          IN /\ backup' = IF made THEN [made |-> TRUE, content |-> disk] ELSE backup
             /\ IF steps = <<>>
                THEN /\ Return("False", evs \o <<Ev("no_path", 0, "", <<>>)>>)
                     /\ UNCHANGED <<path, stepIdx>>
                ELSE /\ path' = steps
                     /\ stepIdx' = 1
                     /\ pc' = "validate"
                     /\ events' = events \o evs
                     /\ UNCHANGED result

\* migrate up to the first step: _validate_versions, _create_backup (bok:
\* whether the copy went through), _get_migration_path
Migrate(f, t, bok) ==
  /\ pc = "idle"
  /\ UNCHANGED <<progression, backupDir>>
  /\ fromV' = f /\ toV' = t
  /\ UNCHANGED <<dryRun, astAvail, srcDir, disk, disk0, hookBackup, rules, files,
                 fileIdx, results, calls>>
  /\ IF ~ValidateVersions(f, t)
     THEN /\ Return("False", <<Ev("versions_rejected", 0, "", <<>>)>>)
          /\ UNCHANGED <<backup, path, stepIdx>>
     ELSE IF ~dryRun /\ ~bok
     THEN /\ Return("False", <<Ev("backup_failed", 0, "", <<>>)>>)
          /\ UNCHANGED <<backup, path, stepIdx>>
     ELSE LET steps == GetMigrationPath(progression, f, t)
              evs == IF dryRun THEN <<>> ELSE <<Ev("backup", 0, "", <<>>)>>
          IN /\ backup' = IF dryRun THEN backup ELSE [made |-> TRUE, content |-> disk]
             /\ IF steps = <<>>
                THEN /\ Return("False", evs \o <<Ev("no_path", 0, "", <<>>)>>)
                     /\ UNCHANGED <<path, stepIdx>>
                ELSE /\ path' = steps
                     /\ stepIdx' = 1
                     /\ pc' = "validate"
                     /\ events' = events \o evs
                     /\ UNCHANGED result

\* migration_key = f"{step_from}->{step_to}"
MigrationKey(key) == key[1] \o "->" \o key[2]

\* summary["migration_steps"]: per step of the path that is registered its
\* key and its affected patterns, recorded as events of kind "summary_step"
SummarySteps(steps) ==
  LET known == SelectSeq(steps, LAMBDA key : key \in MigrationRegistry)
  IN [i \in 1..Len(known) |->
        Ev("summary_step", i, MigrationKey(known[i]), AffectedPatterns(known[i]))]

\* a variant of get_migration_summary that makes the backup migrate makes
GetMigrationSummaryBackingUp(f, t) ==
  /\ pc = "idle"
  /\ UNCHANGED <<progression, backupDir>>
  /\ fromV' = f /\ toV' = t
  /\ path' = GetMigrationPath(progression, f, t)
  /\ pc' = "summary"
  /\ events' = SummarySteps(path')
  /\ backup' = IF dryRun THEN backup ELSE [made |-> TRUE, content |-> disk]
  /\ UNCHANGED <<dryRun, astAvail, srcDir, disk, disk0, hookBackup, stepIdx,
                 rules, files, fileIdx, results, calls, result>>

\* get_migration_summary: the path is resolved without _validate_versions, the
\* step classes are instantiated with dry_run=True and only described
GetMigrationSummary(f, t) ==
  /\ pc = "idle"
  /\ UNCHANGED <<progression, backupDir>>
  /\ fromV' = f /\ toV' = t
  /\ path' = GetMigrationPath(progression, f, t)
  /\ pc' = "summary"
  /\ events' = SummarySteps(path')
  /\ UNCHANGED <<dryRun, astAvail, srcDir, disk, disk0, backup, hookBackup, stepIdx,
                 rules, files, fileIdx, results, calls, result>>

\* the for loop of migrate after a step that succeeded: the next step, or
\* after the last one _update_project_version (unless dry_run) and True
StepSucceeded(d, evs) ==
  IF stepIdx < Len(path)
  THEN /\ stepIdx' = stepIdx + 1
       /\ pc' = "validate"
       /\ disk' = d
       /\ events' = events \o evs
       /\ UNCHANGED result
  ELSE LET d2 == IF dryRun THEN d ELSE UpdateProjectVersion(d, toV)
           upd == IF ~dryRun /\ d[CargoToml] # Absent /\ HasBevyDependency(d[CargoToml])
                  THEN <<Ev("version_update", 0, CargoToml, d2[CargoToml])>> ELSE <<>>
       IN /\ UNCHANGED stepIdx
          /\ disk' = d2
          /\ Return("True", evs \o upd)

\* a variant of the loop that goes on after a failed step
StepReturnsContinuing(ok, d, evs) == StepSucceeded(d, evs)

\* a variant of the loop that copies the backup back when a step has failed
StepReturnsRestoring(ok, d, evs) ==
  IF ok THEN StepSucceeded(d, evs)
  ELSE /\ UNCHANGED stepIdx
       /\ disk' = IF backup.made THEN backup.content ELSE d
       /\ Return("False", evs)

\* the for loop of migrate on the return of _execute_migration_step: d is the
\* project as the step left it, evs what the step did
StepReturns(ok, d, evs) ==
  IF ok THEN StepSucceeded(d, evs)
  ELSE /\ UNCHANGED stepIdx
       /\ disk' = d
       /\ Return("False", evs)

(***************************************************************************)
(* BaseMigration.execute: one step                                         *)
(***************************************************************************)

\* ASTProcessor.validate_transformation: a blank pattern or a blank
\* replacement is rejected
ValidateTransformation(rule) ==
  IF rule.pattern = <<>> THEN FALSE
  ELSE IF rule.replacement = <<>> THEN FALSE
  ELSE TRUE

\* validate_preconditions (the step classes add warnings only): Cargo.toml in
\* the project root, the src directory, every rule of the step valid
ValidatePreconditions(key, d, src) ==
  IF d[CargoToml] = Absent THEN FALSE
  ELSE IF ~src THEN FALSE
  ELSE \A k \in 1..Len(StepRules(key)) : ValidateTransformation(StepRules(key)[k])

\* _get_files_to_process: per affected pattern the sorted matches of
\* find_files_by_pattern, duplicates dropped, first occurrence kept
GetFilesToProcess(key, d) ==
  SelectSeq(RsFileList, LAMBDA f : d[f] # Absent)
    \o (IF CargoToml \in SeqRange(AffectedPatterns(key)) /\ d[CargoToml] # Absent
        THEN <<CargoToml>> ELSE <<>>)

\* the directories whose content default_excludes leaves out ("<dir>/**"); no
\* other pattern of default_excludes matches a Rust file or a Cargo.toml
DefaultExcludedDirs == {"target", ".git", ".vscode", ".idea", "migration_backup"}

\* _should_include_file on a file under the directory dir of the project
ShouldIncludeUnder(dir) == dir \notin DefaultExcludedDirs

\* whether project_path.rglob reaches the directory
InsideProject(dir) == dir # OutsideBackupDir

\* what _get_files_to_process finds on disk: the files of the project, and
\* before and after them in sorted order the copies _create_backup has made of
\* them where rglob reaches the backup directory and no exclude pattern
\* matches it
FilesToProcess(key, d, bk, dir) ==
  LET found == bk.made /\ InsideProject(dir) /\ ShouldIncludeUnder(dir)
      copied == SelectSeq(RsFileList, LAMBDA f : bk.content[f] # Absent)
      rsCopies == IF found THEN [i \in 1..Len(copied) |-> CopyPath(dir, copied[i])]
                  ELSE <<>>
      cargoCopy == IF /\ found
                      /\ CargoToml \in SeqRange(AffectedPatterns(key))
                      /\ bk.content[CargoToml] # Absent
                   THEN <<CopyPath(dir, CargoToml)>> ELSE <<>>
  IN rsCopies \o GetFilesToProcess(key, d) \o cargoCopy

\* the token whose presence in a file makes the step's pre-hook back it up
HookBackupTrigger(key) ==
  CASE key = <<"0.12", "0.13">> -> {"#[derive(WorldQuery)]"}
    [] key = <<"0.15", "0.16">> -> {"app.add_plugin("}
    [] OTHER -> {}

\* pre_migration_steps -> backup_files: the files copied (none under dry_run)
HookBackupFiles(key, d, dry) ==
  IF dry THEN {}
  ELSE {f \in RsFiles : d[f] # Absent /\ SeqRange(d[f]) \cap HookBackupTrigger(key) # {}}

\* str.replace and re.sub of the post-hooks, on one token
ReplaceTok(text, old, new) ==
  [i \in 1..Len(text) |-> IF text[i] = old THEN new ELSE text[i]]

\* post_migration_steps: the content the step's post-hook leaves in Cargo.toml
PostHookCargo(key, text, dry) ==
  CASE key = <<"0.13", "0.14">> ->
         IF dry THEN text ELSE SetBevyVersion(text, "0.14")
    [] key = <<"0.15-part1", "0.15">> -> ReplaceTok(text, "0.14", "0.15")
    [] key = <<"0.15", "0.16">> ->
         IF dry THEN text ELSE SetBevyVersion(text, "0.16")
    [] key = <<"0.17", "0.18">> ->
         ReplaceTok(ReplaceTok(text, "0.17", "0.18"), "animation", "gltf_animation")
    [] OTHER -> text

\* post_migration_steps: whether the post-hook calls write_text on Cargo.toml
PostHookWrites(key, text, dry) ==
  CASE key = <<"0.13", "0.14">> -> ~dry /\ HasBevyDependency(text)
    [] key = <<"0.15-part1", "0.15">> -> PostHookCargo(key, text, dry) # text
    [] key = <<"0.15", "0.16">> -> ~dry /\ HasBevyDependency(text)
    [] key = <<"0.17", "0.18">> -> TRUE
    [] OTHER -> FALSE

\* a variant of the success flag that a failed file does not clear
AllSucceededIgnoring(rs) == TRUE

\* _apply_transformations: MigrationResult.success
AllSucceeded(rs) == \A i \in 1..Len(rs) : rs[i].success

\* MigrationResult before the loop over the results
NoCounts ==
  [files_processed |-> 0, files_modified |-> 0, transformations_applied |-> 0,
   errors |-> 0]

RECURSIVE CountFromBreaking(_, _, _)
\* a variant of the loop over the results that ends at the first failed one
CountFromBreaking(rs, i, acc) ==
  IF i > Len(rs) THEN acc
  ELSE IF ~rs[i].success
       THEN [acc EXCEPT !.files_processed = @ + 1, !.errors = @ + 1]
  ELSE CountFromBreaking(rs, i + 1,
         [acc EXCEPT !.files_processed = @ + 1,
                     !.files_modified =
                        @ + (IF rs[i].original # rs[i].transformed THEN 1 ELSE 0),
                     !.transformations_applied = @ + Len(rs[i].applied)])

MigrationCountsBreaking(rs) == CountFromBreaking(rs, 1, NoCounts)

RECURSIVE CountFrom(_, _, _)
\* the "for transform_result in transformation_results" loop
CountFrom(rs, i, acc) ==
  IF i > Len(rs) THEN acc
  ELSE IF ~rs[i].success
       THEN CountFrom(rs, i + 1,
              [acc EXCEPT !.files_processed = @ + 1, !.errors = @ + 1])
  ELSE CountFrom(rs, i + 1,
         [acc EXCEPT !.files_processed = @ + 1,
                     !.files_modified =
                        @ + (IF rs[i].original # rs[i].transformed THEN 1 ELSE 0),
                     !.transformations_applied = @ + Len(rs[i].applied)])

\* _apply_transformations: the counts of the MigrationResult (errors: how many)
MigrationCounts(rs) == CountFrom(rs, 1, NoCounts)

\* _log_migration_results: the counts it logs
ReportText(rs) ==
  <<MigrationCounts(rs).files_processed, MigrationCounts(rs).files_modified,
    MigrationCounts(rs).transformations_applied, MigrationCounts(rs).errors>>

\* _execute_migration_step up to the pre-hook: the registry lookup, then of
\* execute validate_preconditions and _get_files_to_process
StepValidate ==
  /\ pc = "validate"
  /\ UNCHANGED <<progression, backupDir>>
  /\ UNCHANGED <<dryRun, astAvail, srcDir, disk0, backup, hookBackup, fromV, toV, path>>
  /\ results' = <<>>
  /\ calls' = <<>>
  /\ fileIdx' = 1
  /\ LET key == path[stepIdx]
         start == <<Ev("step_start", stepIdx, "", <<>>)>>
         fs == FilesToProcess(key, disk, backup, backupDir)
     IN IF key \notin MigrationRegistry
        THEN /\ StepReturns(FALSE, disk, start \o <<Ev("step_failed", stepIdx, "", <<>>)>>)
             /\ UNCHANGED <<rules, files>>
        ELSE /\ rules' = StepRules(key)
             /\ IF ~ValidatePreconditions(key, disk, srcDir)
                THEN /\ StepReturns(FALSE, disk,
                          start \o <<Ev("precond_failed", stepIdx, "", <<>>),
                                     Ev("step_failed", stepIdx, "", <<>>)>>)
                     /\ UNCHANGED files
                ELSE /\ files' = fs
                     /\ IF fs = <<>>
                        THEN StepReturns(TRUE, disk,
                               start \o <<Ev("no_files", stepIdx, "", <<>>),
                                          Ev("step_ok", stepIdx, "", <<>>)>>)
                        ELSE /\ pc' = "prehook"
                             /\ events' = events \o start
                             /\ UNCHANGED <<disk, stepIdx, result>>

\* a variant of execute that goes on to the rules whatever the pre-hook returns
PreHookReturnsIgnored(ok, evs) ==
  /\ pc' = IF rules = <<>> THEN "posthook" ELSE "engine"
  /\ events' = events \o evs
  /\ UNCHANGED <<disk, stepIdx, result>>

\* execute on the return of pre_migration_steps
PreHookReturns(ok, evs) ==
  IF ok
  THEN /\ pc' = IF rules = <<>> THEN "posthook" ELSE "engine"
       /\ events' = events \o evs
       /\ UNCHANGED <<disk, stepIdx, result>>
  ELSE StepReturns(FALSE, disk, evs \o <<Ev("step_failed", stepIdx, "", <<>>)>>)

\* pre_migration_steps of the step: ok is whether it ran without an exception
StepPreHook(ok) ==
  /\ pc = "prehook"
  /\ UNCHANGED <<progression, backupDir>>
  /\ UNCHANGED <<dryRun, astAvail, srcDir, disk0, backup, fromV, toV, path, rules, files,
                 fileIdx, results, calls>>
  /\ LET key == path[stepIdx]
         copied == IF ok THEN HookBackupFiles(key, disk, dryRun) ELSE {}
     IN /\ hookBackup' = [f \in AllFiles |-> IF f \in copied THEN disk[f] ELSE hookBackup[f]]
        /\ PreHookReturns(ok,
             <<Ev(IF ok THEN "prehook_ok" ELSE "prehook_failed", stepIdx, "", <<>>)>>)

(***************************************************************************)
(* ASTProcessor.apply_transformations                                      *)
(***************************************************************************)

TransformationResult(f, orig, new, applied, ok, err) ==
  [file |-> f, original |-> orig, transformed |-> new, applied |-> applied,
   success |-> ok, error |-> err]

\* a variant of the write condition that does not look at dry_run
ShouldWriteAlways(dry, original, transformed) == transformed # original

\* _process_file: "if not self.dry_run and transformed_content != original_content"
ShouldWrite(dry, original, transformed) == ~dry /\ transformed # original

\* a variant of the file loop that ends at the first file that failed
NextFileIdxAborting(idx, n, ok) == IF ok THEN idx + 1 ELSE n + 1

\* the "for file_path in file_paths" loop of apply_transformations
NextFileIdx(idx, n, ok) == idx + 1

\* one way a backend call can end per rule of the list
OutcomeLists(rs) == [1..Len(rs) -> {"ok", "nonzero", "timeout", "malformed"}]

\* whether the backend calls for one file can end as outs says: one outcome
\* per rule that reaches the backend (the others are never called)
OutcomeChoice(rs, f, avail, outs) ==
  \A k \in 1..Len(rs) :
     outs[k] \in (IF avail /\ ShouldApplyTransformation(f, rs[k])
                  THEN BackendOutcomes(rs[k]) ELSE {"ok"})

\* one round of the loop of apply_transformations: _process_file on the next
\* file; raise is the I/O call that raises, if it is reached
ProcessFile(raise, outs) ==
  /\ pc = "engine"
  /\ UNCHANGED <<progression, backupDir>>
  /\ fileIdx <= Len(files)
  /\ OutcomeChoice(rules, files[fileIdx], astAvail, outs)
  /\ UNCHANGED <<dryRun, astAvail, srcDir, disk0, hookBackup, fromV, toV, path,
                 stepIdx, rules, files, result>>
  /\ LET f == files[fileIdx]
         original == IF f \in AllFiles THEN disk[f] ELSE backup.content[OrigOf(f)]
         acc == TransformLoop(rules, 1, f, astAvail, outs,
                              [text |-> original, applied |-> <<>>, calls |-> <<>>])
         wants == ShouldWrite(dryRun, original, acc.text)
         raised == IF raise = "read" THEN "read"
                   ELSE IF raise = "write" /\ wants THEN "write" ELSE "none"
         res == IF raised = "none"
                THEN TransformationResult(f, original, acc.text, acc.applied, TRUE, "")
                ELSE TransformationResult(f, <<>>, <<>>, <<>>, FALSE, raised)
         written == raised = "none" /\ wants
     IN /\ disk' = IF written /\ f \in AllFiles THEN [disk EXCEPT ![f] = acc.text] ELSE disk
        /\ backup' = IF written /\ f \notin AllFiles
                     THEN [backup EXCEPT !.content[OrigOf(f)] = acc.text] ELSE backup
        /\ results' = Append(results, res)
        /\ calls' = Append(calls, [raised |-> raised,
                                   list |-> IF raised = "read" THEN <<>> ELSE acc.calls])
        /\ events' = events \o
                       <<Ev(IF res.success THEN "file_processed" ELSE "file_failed",
                            stepIdx, f, <<>>)>>
                       \o (IF written THEN <<Ev("write", stepIdx, f, acc.text)>> ELSE <<>>)
        /\ fileIdx' = NextFileIdx(fileIdx, Len(files), res.success)
        /\ pc' = IF fileIdx' > Len(files) THEN "posthook" ELSE "engine"

\* execute from post_migration_steps on: the hook (ok: it ran without an
\* exception), _log_migration_results, "return result.success"
StepPostHook(ok) ==
  /\ pc = "posthook"
  /\ UNCHANGED <<progression, backupDir>>
  /\ UNCHANGED <<dryRun, astAvail, srcDir, disk0, backup, hookBackup, fromV, toV, path,
                 rules, files, fileIdx, results, calls>>
  /\ LET key == path[stepIdx]
         cargo == disk[CargoToml]
         writes == ok /\ cargo # Absent /\ PostHookWrites(key, cargo, dryRun)
         d == IF writes
              THEN [disk EXCEPT ![CargoToml] = PostHookCargo(key, cargo, dryRun)]
              ELSE disk
         good == AllSucceeded(results)
         evs == IF ok
                THEN (IF writes
                      THEN <<Ev("posthook_write", stepIdx, CargoToml, d[CargoToml])>>
                      ELSE <<>>)
                     \o <<Ev("posthook_ok", stepIdx, "", <<>>),
                          Ev("report", stepIdx, "", ReportText(results)),
                          Ev(IF good THEN "step_ok" ELSE "step_failed", stepIdx, "", <<>>)>>
                ELSE <<Ev("posthook_failed", stepIdx, "", <<>>),
                       Ev("step_failed", stepIdx, "", <<>>)>>
     IN StepReturns(ok /\ good, d, evs)

(***************************************************************************)
(* The run of the tool                                                     *)
(***************************************************************************)

Next ==
  \/ \E f \in AllTags, t \in AllTags, bok \in BOOLEAN : Migrate(f, t, bok)
  \/ \E f \in AllTags, t \in AllTags : GetMigrationSummary(f, t)
  \/ StepValidate
  \/ \E ok \in BOOLEAN : StepPreHook(ok)
  \/ \E raise \in {"none", "read", "write"}, outs \in OutcomeLists(rules) :
       ProcessFile(raise, outs)
  \/ \E ok \in BOOLEAN : StepPostHook(ok)

Spec == Init /\ [][Next]_vars

(***************************************************************************)
(* The transformation engine called on its own, as the tests call it       *)
(***************************************************************************)

\* rules the tests give to the engine
EngineRules ==
  { Rule(<<"bevy", "::", "a11y">>, <<"bevy", "::", "input_focus">>,
         "Replace a11y module path", DefaultFilePatterns, "none"),
    Rule(<<"a11y", "::", "Focus">>, <<"input_focus", "::", "InputFocus">>,
         "Replace Focus sub-path", DefaultFilePatterns, "none"),
    Rule(<<"transform(", "$VAL", ")">>, <<"ignored">>,
         "Test callback with inline YAML", DefaultFilePatterns, "my_callback") }

\* the rule lists given to apply_transformations
RuleLists == UNION { [1..n -> EngineRules] : n \in 0..MaxRules }

\* the source texts of the files given to the engine
EngineTexts ==
  { <<"use", "bevy", "::", "a11y", "::", "Focus">>,
    <<"transform(", "42", ")", "NL", "transform(", "7", ")">>,
    <<"fn", "main">> }

\* the file list given to the engine: a Rust file and the manifest
EngineFiles == <<Head(RsFileList), CargoToml>>

EngineProjects ==
  { d \in [AllFiles -> EngineTexts \cup InitManifests] :
      /\ d[CargoToml] = <<"[package]", "0.14">>
      /\ d[Head(RsFileList)] \in EngineTexts
      /\ \A f \in RsFiles \ {Head(RsFileList)} : d[f] = <<"fn", "main">> }

\* an ASTProcessor handed a rule list and the files of a project
InitEngine ==
  /\ dryRun \in BOOLEAN
  /\ astAvail \in BOOLEAN
  /\ disk \in EngineProjects
  /\ disk0 = disk
  /\ srcDir = TRUE
  /\ backup = NoBackup
  /\ hookBackup = NoHookBackup
  /\ pc = "engine"
  /\ fromV = "" /\ toV = ""
  /\ path = <<>>
  /\ stepIdx = 1
  /\ rules \in RuleLists
  /\ files = EngineFiles
  /\ fileIdx = 1
  /\ results = <<>>
  /\ calls = <<>>
  /\ events = <<>>
  /\ result = "none"
  /\ progression = VersionProgression
  /\ backupDir = DefaultBackupDir

NextEngine ==
  \E raise \in {"none", "read", "write"}, outs \in OutcomeLists(rules) :
     ProcessFile(raise, outs)

SpecEngine == InitEngine /\ [][NextEngine]_vars

(***************************************************************************)
(* The engine given rules made with create_bevy_transformation             *)
(***************************************************************************)

\* rules a caller makes with file_patterns of its own: one that matches by
\* the path relative to the project root only, one for manifests, one whose
\* patterns match no file of the list, one with two patterns of which the
\* second matches by the bare name, and one whose replacement is its match
ApiRules ==
  { Rule(<<"main">>, <<"start">>, "Rename main under src", <<"src/*.rs">>, "none"),
    Rule(<<"main">>, <<"start">>, "Rename main in manifests", <<"*.toml">>, "none"),
    Rule(<<"fn">>, <<"func">>, "Rename fn in main.rs", <<"main.rs">>, "none"),
    Rule(<<"start">>, <<"run">>, "Rename start", <<"main.rs", "lib.rs">>, "none"),
    Rule(<<"fn">>, <<"fn">>, "Keep fn", DefaultFilePatterns, "none") }

ApiRuleLists == UNION { [1..n -> ApiRules] : n \in 0..MaxRules }

\* the source texts of the Rust file given to the engine
ApiTexts == { <<"fn", "main">>, <<"fn", "start", "NL", "fn", "main">> }

ApiProjects ==
  { d \in [AllFiles -> ApiTexts \cup InitManifests] :
      /\ d[CargoToml] = <<"[package]", "0.14">>
      /\ d[Head(RsFileList)] \in ApiTexts
      /\ \A f \in RsFiles \ {Head(RsFileList)} : d[f] = <<"fn", "main">> }

\* an ASTProcessor handed such a rule list and the files of a project
InitApi ==
  /\ dryRun \in BOOLEAN
  /\ astAvail \in BOOLEAN
  /\ disk \in ApiProjects
  /\ disk0 = disk
  /\ srcDir = TRUE
  /\ backup = NoBackup
  /\ hookBackup = NoHookBackup
  /\ pc = "engine"
  /\ fromV = "" /\ toV = ""
  /\ path = <<>>
  /\ stepIdx = 1
  /\ rules \in ApiRuleLists
  /\ files = EngineFiles
  /\ fileIdx = 1
  /\ results = <<>>
  /\ calls = <<>>
  /\ events = <<>>
  /\ result = "none"
  /\ progression = VersionProgression
  /\ backupDir = DefaultBackupDir

SpecApi == InitApi /\ [][NextEngine]_vars

(***************************************************************************)
(* The engine given rules with metavariables in pattern and replacement    *)
(***************************************************************************)

\* foo($A) -> bar($A) of the tests, the multi capture form of it, and the
\* rule of the 0.14 -> 0.15 catalog that drops the call parentheses of run_once
SubstRules ==
  { Rule(<<"foo(", "$A", ")">>, <<"bar(", "$A", ")">>,
         "Test inline YAML", DefaultFilePatterns, "none"),
    Rule(<<"foo(", "$$$ARGS", ")">>, <<"bar(", "$$$ARGS", ")">>,
         "Rename foo with its arguments", DefaultFilePatterns, "none"),
    Rule(<<"run_once", "()">>, <<"run_once">>,
         "Simplify run_once() to run_once", DefaultFilePatterns, "none") }

SubstRuleLists == UNION { [1..n -> SubstRules] : n \in 0..MaxRules }

\* texts with one call of foo (one argument, none, three) and one that calls
\* what run_once() returns
SubstTexts ==
  { <<"fn", "main()", "{", "foo(", "1", ")", ";", "}">>,
    <<"foo(", ")">>,
    <<"foo(", "1", ",", "2", ",", "3", ")">>,
    <<"run_once", "()", "()">> }

SubstProjects ==
  { d \in [AllFiles -> SubstTexts \cup InitManifests] :
      /\ d[CargoToml] = <<"[package]", "0.14">>
      /\ d[Head(RsFileList)] \in SubstTexts
      /\ \A f \in RsFiles \ {Head(RsFileList)} : d[f] = <<"foo(", ")">> }

InitSubst ==
  /\ dryRun \in BOOLEAN
  /\ astAvail \in BOOLEAN
  /\ disk \in SubstProjects
  /\ disk0 = disk
  /\ srcDir = TRUE
  /\ backup = NoBackup
  /\ hookBackup = NoHookBackup
  /\ pc = "engine"
  /\ fromV = "" /\ toV = ""
  /\ path = <<>>
  /\ stepIdx = 1
  /\ rules \in SubstRuleLists
  /\ files = EngineFiles
  /\ fileIdx = 1
  /\ results = <<>>
  /\ calls = <<>>
  /\ events = <<>>
  /\ result = "none"
  /\ progression = VersionProgression
  /\ backupDir = DefaultBackupDir

SpecSubst == InitSubst /\ [][NextEngine]_vars

(***************************************************************************)
(* The engine given the files of a project in any order                    *)
(***************************************************************************)

\* a rule for the Rust files and a rule for the manifest (the token "0.14"
\* stands for the line  bevy = "0.14")
PermRules ==
  { Rule(<<"main">>, <<"start">>, "Rename main under src", <<"src/*.rs">>, "none"),
    Rule(<<"0.14">>, <<"0.15">>, "Set bevy to 0.15 in manifests", <<"*.toml">>, "none") }

\* the rule lists given with them: no rule twice
PermRuleLists ==
  { rs \in UNION { [1..n -> PermRules] : n \in 0..MaxRules } :
      \A i, j \in 1..Len(rs) : rs[i] = rs[j] => i = j }

\* the files of the project in every order
FileOrders ==
  { fs \in [1..Cardinality(AllFiles) -> AllFiles] :
      \A i, j \in 1..Cardinality(AllFiles) : fs[i] = fs[j] => i = j }

PermProjects ==
  { d \in [AllFiles -> ApiTexts \cup InitManifests] :
      /\ d[CargoToml] = <<"[package]", "0.14">>
      /\ d[Head(RsFileList)] \in ApiTexts
      /\ \A f \in RsFiles \ {Head(RsFileList)} : d[f] = <<"fn", "main">> }

InitPerm ==
  /\ dryRun \in BOOLEAN
  /\ astAvail \in BOOLEAN
  /\ disk \in PermProjects
  /\ disk0 = disk
  /\ srcDir = TRUE
  /\ backup = NoBackup
  /\ hookBackup = NoHookBackup
  /\ pc = "engine"
  /\ fromV = "" /\ toV = ""
  /\ path = <<>>
  /\ stepIdx = 1
  /\ rules \in PermRuleLists
  /\ files \in FileOrders
  /\ fileIdx = 1
  /\ results = <<>>
  /\ calls = <<>>
  /\ events = <<>>
  /\ result = "none"
  /\ progression = VersionProgression
  /\ backupDir = DefaultBackupDir

SpecPerm == InitPerm /\ [][NextEngine]_vars

(***************************************************************************)
(* The engine given rules that carry a callback                            *)
(***************************************************************************)

\* the callback rule of the tests and the callback rule of the catalog of
\* 0.17-part1 -> 0.17-part2, handed to apply_transformations as the tests hand
\* the rules of a step
CallbackRules ==
  { Rule(<<"transform(", "$VAL", ")">>, <<"ignored">>,
         "Test callback with inline YAML", DefaultFilePatterns, "my_callback"),
    StepRules(<<"0.17-part1", "0.17-part2">>)[2] }

\* the rule lists given with them: no rule twice
CallbackRuleLists ==
  { rs \in UNION { [1..n -> CallbackRules] : n \in 0..MaxRules } :
      \A i, j \in 1..Len(rs) : rs[i] = rs[j] => i = j }

\* texts with two matches of the first rule, with one of the second
CallbackTexts ==
  { <<"transform(", "42", ")", "NL", "transform(", "7", ")">>,
    <<"Camera { hdr: true", ",", "..default()", "}">>,
    <<"transform(", "1", ")", "Camera { hdr: true", "}">> }

CallbackProjects ==
  { d \in [AllFiles -> CallbackTexts \cup InitManifests] :
      /\ d[CargoToml] = <<"[package]", "0.14">>
      /\ d[Head(RsFileList)] \in CallbackTexts
      /\ \A f \in RsFiles \ {Head(RsFileList)} : d[f] = <<"fn", "main">> }

InitCallback ==
  /\ dryRun \in BOOLEAN
  /\ astAvail \in BOOLEAN
  /\ disk \in CallbackProjects
  /\ disk0 = disk
  /\ srcDir = TRUE
  /\ backup = NoBackup
  /\ hookBackup = NoHookBackup
  /\ pc = "engine"
  /\ fromV = "" /\ toV = ""
  /\ path = <<>>
  /\ stepIdx = 1
  /\ rules \in CallbackRuleLists
  /\ files = EngineFiles
  /\ fileIdx = 1
  /\ results = <<>>
  /\ calls = <<>>
  /\ events = <<>>
  /\ result = "none"
  /\ progression = VersionProgression
  /\ backupDir = DefaultBackupDir

SpecCallback == InitCallback /\ [][NextEngine]_vars

(***************************************************************************)
(* _get_migration_path, iteration by iteration, over any progression map   *)
(***************************************************************************)

\* the tags of the progression maps tried
PathTags == {"0.12", "0.13", "0.14"}

\* every map from some of the tags to tags: chains, maps that end early, maps
\* with a cycle and maps that send a tag to itself
ProgressionMaps ==
  UNION { [D -> PathTags] : D \in SUBSET PathTags }

\* a variant of the safety check that trips two steps later
PathTooLongLate(p) == Len(p) > MaxPathLen + 2

\* the safety check: len(path) > 10
PathTooLong(p) == Len(p) > MaxPathLen

\* current_version: from_version, then the target of the step appended last
CurrentVersion == IF path = <<>> THEN fromV ELSE path[Len(path)][2]

InitPath ==
  /\ dryRun = TRUE
  /\ astAvail = FALSE
  /\ disk \in {d \in Projects : \A f \in AllFiles : d[f] = IF f = CargoToml
                                                           THEN <<"[package]", "0.14">>
                                                           ELSE Absent}
  /\ disk0 = disk
  /\ srcDir = FALSE
  /\ backup = NoBackup
  /\ hookBackup = NoHookBackup
  /\ pc = "resolving"
  /\ fromV \in PathTags /\ toV \in PathTags
  /\ path = <<>>
  /\ stepIdx = 0
  /\ rules = <<>>
  /\ files = <<>>
  /\ fileIdx = 0
  /\ results = <<>>
  /\ calls = <<>>
  /\ events = <<>>
  /\ result = "none"
  /\ progression \in ProgressionMaps
  /\ backupDir = DefaultBackupDir

\* the while loop left with current_version == to_version: return path
PathReturn ==
  /\ pc = "resolving"
  /\ CurrentVersion = toV
  /\ pc' = "resolved"
  /\ UNCHANGED <<dryRun, astAvail, srcDir, disk, disk0, backup, hookBackup, fromV, toV,
                 path, stepIdx, rules, files, fileIdx, results, calls, events, result,
                 progression, backupDir>>

\* one iteration of the while loop: no next version, return []; else the step
\* is appended (recorded as an event of kind "append") and, the path being too
\* long, return []
PathIterate ==
  /\ pc = "resolving"
  /\ CurrentVersion # toV
  /\ IF CurrentVersion \notin DOMAIN progression
     THEN /\ path' = <<>>
          /\ pc' = "resolved"
          /\ UNCHANGED events
     ELSE LET next == progression[CurrentVersion]
              p2 == Append(path, <<CurrentVersion, next>>)
          IN /\ events' = Append(events, Ev("append", Len(p2), CurrentVersion, <<next>>))
             /\ IF PathTooLong(p2)
                THEN path' = <<>> /\ pc' = "resolved"
                ELSE path' = p2 /\ pc' = "resolving"
  /\ UNCHANGED <<dryRun, astAvail, srcDir, disk, disk0, backup, hookBackup, fromV, toV,
                 stepIdx, rules, files, fileIdx, results, calls, result, progression,
                 backupDir>>

NextPath == PathReturn \/ PathIterate

SpecPath == InitPath /\ [][NextPath]_vars

\* the loop runs on: every iteration enabled is eventually taken
SpecPathFair == SpecPath /\ WF_vars(NextPath)

(***************************************************************************)
(* Real runs with the backup directory the caller names                    *)
(***************************************************************************)

InitBackup ==
  /\ dryRun = FALSE
  /\ astAvail = FALSE
  /\ disk \in {d \in Projects : d[CargoToml] # Absent}
  /\ disk0 = disk
  /\ srcDir = TRUE
  /\ backup = NoBackup
  /\ hookBackup = NoHookBackup
  /\ pc = "idle"
  /\ fromV = "" /\ toV = ""
  /\ path = <<>>
  /\ stepIdx = 0
  /\ rules = <<>>
  /\ files = <<>>
  /\ fileIdx = 0
  /\ results = <<>>
  /\ calls = <<>>
  /\ events = <<>>
  /\ result = "none"
  /\ progression = VersionProgression
  /\ backupDir \in BackupDirs

SpecBackup == InitBackup /\ [][Next]_vars

(***************************************************************************)
(* Properties                                                              *)
(***************************************************************************)

EventKinds(from, to) == {events[p].kind : p \in from..to}

TagPos(v) == IndexOf(ChainTags, v)

\* the steps between two tags of the chain, in chain order (none if the
\* second tag does not come after the first, or a tag is not of the chain)
ExpectedChain(f, t) ==
  IF f \in SeqRange(ChainTags) /\ t \in SeqRange(ChainTags) /\ TagPos(f) < TagPos(t)
  THEN [i \in 1..(TagPos(t) - TagPos(f)) |->
          <<ChainTags[TagPos(f) + i - 1], ChainTags[TagPos(f) + i]>>]
  ELSE <<>>

StepStarts == SelectSeq(events, LAMBDA e : e.kind = "step_start")

\* C1: migrate starts the steps of the resolved path in path order, each one
\* only after the one before it has succeeded; once a step has failed nothing
\* more happens (no later step is started) and migrate has returned False.
C1_StepsInOrderStopAtFailure ==
  /\ \A i \in 1..Len(StepStarts) : StepStarts[i].step = i /\ i <= Len(path)
  /\ \A p \in 1..Len(events) :
        (events[p].kind = "step_start" /\ events[p].step > 1)
          => /\ events[p - 1].kind = "step_ok"
             /\ events[p - 1].step = events[p].step - 1
  /\ \A p \in 1..Len(events) :
        events[p].kind = "step_failed"
          => /\ p = Len(events)
             /\ pc = "returned"
             /\ result = "False"
  /\ result = "True" => Len(StepStarts) = Len(path)

\* a run whose second step failed while a third one was still to come
C1_Witness ==
  /\ pc = "returned" /\ result = "False"
  /\ Len(path) > 2
  /\ events[Len(events)].kind = "step_failed"
  /\ events[Len(events)].step = 2
  /\ Len(StepStarts) = 2

\* C2: for every pair of tags, _get_migration_path returns the chain of
\* registered steps from the first tag to the second, in order, when the second
\* is reachable forward from the first, and the empty path in every other case.
C2_PathResolution ==
  pc \in {"summary", "validate", "prehook", "engine", "posthook"}
    => /\ path = ExpectedChain(fromV, toV)
       /\ \A i \in 1..Len(path) : path[i] \in MigrationRegistry

\* the whole chain resolved
C2_Witness ==
  /\ pc = "summary"
  /\ fromV = "0.12" /\ toV = "0.18"
  /\ Len(path) = Len(ChainTags) - 1

\* the calls with no migration path: equal tags, a backwards target, a tag
\* that is unsupported or unregistered
NoPathCase(f, t) ==
  \/ f = t
  \/ ExpectedChain(f, t) = <<>>
  \/ f \notin SeqRange(SupportedVersions)
  \/ t \notin SeqRange(SupportedVersions)

\* C3: when migrate fails for want of a migration path, nothing is touched: no
\* backup, no hook, no write to a project file, no version update.
C3_NoPathTouchesNothing ==
  (pc = "returned" /\ NoPathCase(fromV, toV))
    => /\ result = "False"
       /\ disk = disk0
       /\ backup = NoBackup
       /\ hookBackup = NoHookBackup
       /\ EventKinds(1, Len(events)) \subseteq {"versions_rejected"}

\* migrate("0.14", "0.14") outside dry run has returned
C3_Witness ==
  /\ pc = "returned" /\ result = "False"
  /\ ~dryRun
  /\ fromV = "0.14" /\ toV = "0.14"

\* whether both rules of a two-rule list pass the file filter for the file
BothApply(f) ==
  /\ Len(rules) = 2
  /\ ShouldApplyTransformation(f, rules[1])
  /\ ShouldApplyTransformation(f, rules[2])

\* the second rule applied to what the first rule made of the text S, the
\* backend calls ending as they did for the i-th file
SecondAfterFirst(i, S) ==
  ApplySingleTransformation(
    ApplySingleTransformation(S, rules[1], astAvail, calls[i].list[1].outcome),
    rules[2], astAvail, calls[i].list[2].outcome)

\* C4: for a file and two rules R1, R2 that both pass the file filter, the
\* transformed text of the file is R2 applied to (R1 applied to the original
\* text): the rules act in list order, each on the output of the one before.
C4_RulesComposeInListOrder ==
  \A i \in 1..Len(results) :
     (results[i].success /\ BothApply(files[i]))
       => /\ results[i].original = disk0[files[i]]
          /\ results[i].transformed = SecondAfterFirst(i, disk0[files[i]])

\* a file on which the second rule alone would have given another text than
\* the two rules in sequence
C4_Witness ==
  \E i \in 1..Len(results) :
     /\ results[i].success /\ BothApply(files[i])
     /\ rules[1] # rules[2]
     /\ Len(results[i].applied) >= 1
     /\ results[i].transformed
          # ApplySingleTransformation(disk0[files[i]], rules[2], astAvail,
                                      calls[i].list[2].outcome)

\* C5: a processed file holds the final transformed text if dry_run is off,
\* the file was processed without error and that text differs from the
\* original, and holds its original content in every other case; under
\* dry_run no file changes on disk.
C5_WritePolicy ==
  /\ dryRun => disk = disk0
  /\ \A i \in 1..Len(results) :
        IF results[i].success /\ ~dryRun /\ results[i].transformed # results[i].original
        THEN disk[files[i]] = results[i].transformed
        ELSE disk[files[i]] = disk0[files[i]]
  /\ \A j \in (Len(results) + 1)..Len(files) : disk[files[j]] = disk0[files[j]]

\* a file overwritten with its transformed text
C5_Witness ==
  /\ ~dryRun
  /\ \E i \in 1..Len(results) :
        /\ results[i].success
        /\ results[i].transformed # results[i].original
        /\ disk[files[i]] = results[i].transformed
        /\ disk[files[i]] # disk0[files[i]]

\* C6: under dry_run a run of migrate leaves every project file with the
\* content it had before the run and creates no backup copy.
C6_DryRunWritesNothing ==
  dryRun => /\ disk = disk0
            /\ backup = NoBackup
            /\ hookBackup = NoHookBackup

\* C7: apply_transformations yields one result per input file, in input
\* order; a file whose processing raised has a failed result with the error
\* recorded, and the files after it are processed all the same.
C7_OneResultPerFile ==
  /\ Len(results) = fileIdx - 1
  /\ Len(calls) = Len(results)
  /\ pc = "posthook" => Len(results) = Len(files)
  /\ \A i \in 1..Len(results) :
        /\ results[i].file = files[i]
        /\ results[i].success <=> calls[i].raised = "none"
        /\ ~results[i].success => results[i].error # ""

\* the first file failed and the one after it was processed
C7_Witness ==
  /\ pc = "posthook"
  /\ Len(results) >= 2
  /\ ~results[1].success
  /\ results[2].success

\* what a step does after its pre-hook
AfterPreHookKinds ==
  {"file_processed", "file_failed", "write", "posthook_ok", "posthook_write",
   "posthook_failed", "report", "step_start", "step_ok", "version_update"}

\* C8: once the pre-hook of a step has returned false the run has stopped: no
\* rule of the step is applied, no file written, the post-hook not run, no
\* later step started, and migrate has returned False.
C8_PreHookFailureStops ==
  \A p \in 1..Len(events) :
     events[p].kind = "prehook_failed"
       => /\ pc = "returned" /\ result = "False"
          /\ results = <<>>
          /\ EventKinds(p + 1, Len(events)) \cap AfterPreHookKinds = {}
          /\ \A q \in 1..Len(events) :
                events[q].step = events[p].step
                  => events[q].kind \in {"step_start", "prehook_failed", "step_failed"}

\* the pre-hook of the second step returned false, a third step to come
C8_Witness ==
  /\ pc = "returned"
  /\ Len(path) > 2
  /\ \E p \in 1..Len(events) : events[p].kind = "prehook_failed" /\ events[p].step = 2

WriteKinds == {"write", "posthook_write", "version_update"}

WritesTo(f) == {p \in 1..Len(events) : events[p].kind \in WriteKinds /\ events[p].file = f}

\* the content last written to the file during the run, or its content before
LastWritten(f) ==
  IF WritesTo(f) = {} THEN disk0[f]
  ELSE events[CHOOSE p \in WritesTo(f) : \A q \in WritesTo(f) : q <= p].text

\* C9: when the run has stopped on a failed step every file holds what was
\* last written to it (its transformed content where a step wrote it): nothing
\* is restored from the backup.
C9_NoRollback ==
  (pc = "returned" /\ result = "False")
    => \A f \in AllFiles : disk[f] = LastWritten(f)

\* the first step wrote a file, the second step failed, the file stays written
C9_Witness ==
  /\ pc = "returned" /\ result = "False"
  /\ backup.made
  /\ \E p \in 1..Len(events) : events[p].kind = "write" /\ events[p].step = 1
  /\ events[Len(events)].kind = "step_failed" /\ events[Len(events)].step = 2
  /\ disk # disk0
  /\ disk # backup.content

BadOutcomes == {"nonzero", "timeout", "malformed"}

\* C10: a backend call that ends with a non-zero exit, a timeout or malformed
\* output is answered by the regex backend, the file's result stays
\* successful, and the step's verdict over the results is success unless
\* reading or writing a file raised.
C10_BackendFailureFallsBack ==
  /\ \A i \in 1..Len(results) :
        /\ calls[i].raised = "none" => results[i].success
        /\ \A k \in 1..Len(calls[i].list) :
              LET c == calls[i].list[k]
              IN c.outcome \in BadOutcomes
                   => /\ c.served = "regex"
                      /\ c.output = ApplyRegexTransformation(c.input, rules[c.rule])
  /\ (pc = "posthook" /\ \A i \in 1..Len(calls) : calls[i].raised = "none")
       => AllSucceeded(results)

\* a timed-out call whose rule the regex backend applied, the batch a success
C10_Witness ==
  /\ pc = "posthook"
  /\ AllSucceeded(results)
  /\ \E i \in 1..Len(results) : \E k \in 1..Len(calls[i].list) :
        /\ calls[i].list[k].outcome = "timeout"
        /\ calls[i].list[k].output # calls[i].list[k].input
  /\ \E i \in 1..Len(results) : \E k \in 1..Len(calls[i].list) :
        calls[i].list[k].outcome = "malformed"

\* whether a glob of the rule matches the bare name of the file or its path
\* relative to the project root
PathMatches(f, rule) ==
  \E i \in 1..Len(rule.file_patterns) :
     FnMatch(FileName(f), rule.file_patterns[i]) \/ FnMatch(f, rule.file_patterns[i])

\* the text the k-th rule applied to the i-th file was given: the output of
\* the rule applied before it, or the original text
GivenText(i, k) ==
  IF k = 1 THEN results[i].original ELSE calls[i].list[k - 1].output

\* C11: a rule is applied to a file only if a glob of its file_patterns
\* matches the file's bare name or its path relative to the project root; the
\* text of a file passes through the matching rules alone, and a file none of
\* whose rules match keeps its text and has no rule recorded as applied.
C11_FilePatternsFilter ==
  \A i \in 1..Len(results) :
     results[i].success
       => /\ \A k \in 1..Len(calls[i].list) :
                /\ PathMatches(files[i], rules[calls[i].list[k].rule])
                /\ calls[i].list[k].input = GivenText(i, k)
          /\ results[i].transformed
                = GivenText(i, Len(calls[i].list) + 1)
          /\ \A j \in 1..Len(results[i].applied) :
                \E k \in 1..Len(calls[i].list) :
                   results[i].applied[j] = rules[calls[i].list[k].rule].description
          /\ (\A k \in 1..Len(rules) : ~PathMatches(files[i], rules[k]))
                => /\ results[i].transformed = results[i].original
                   /\ results[i].applied = <<>>
                   /\ disk[files[i]] = disk0[files[i]]

\* a Rust file rewritten by a rule that matches its relative path only, next
\* to a rule of the list that matches no name of it and would have changed it
C11_Witness ==
  \E i \in 1..Len(results) :
     /\ results[i].success
     /\ files[i] # CargoToml
     /\ Len(rules) = 2
     /\ rules[1].file_patterns = <<"main.rs">>
     /\ rules[2].file_patterns = <<"src/*.rs">>
     /\ ~PathMatches(files[i], rules[1])
     /\ ApplyRegexTransformation(results[i].original, rules[1]) # results[i].original
     /\ results[i].applied = <<rules[2].description>>
     /\ Len(calls[i].list) = 1

\* the calls made for the i-th file that changed the text they were given
ChangingCalls(i) == SelectSeq(calls[i].list, LAMBDA c : c.output # c.input)

\* C12: the applied_transformations of a processed file are the descriptions
\* of the rules whose application changed the text it was given (the output of
\* the rules before it), in rule-list order; a rule whose replacement equals
\* its match is not among them.
C12_AppliedIffChanged ==
  \A i \in 1..Len(results) :
     results[i].success
       => /\ Len(results[i].applied) = Len(ChangingCalls(i))
          /\ \A j \in 1..Len(ChangingCalls(i)) :
                results[i].applied[j] = rules[ChangingCalls(i)[j].rule].description
          /\ \A k \in 1..Len(calls[i].list) :
                /\ calls[i].list[k].input = GivenText(i, k)
                /\ calls[i].list[k].output
                     = ApplySingleTransformation(calls[i].list[k].input,
                         rules[calls[i].list[k].rule], astAvail,
                         IF astAvail THEN calls[i].list[k].outcome ELSE "ok")
                /\ k > 1 => calls[i].list[k - 1].rule < calls[i].list[k].rule

\* a rule that replaces "fn" by "fn" was called on a text holding "fn" and is
\* not recorded, the rule after it changed the text and is the one recorded
C12_Witness ==
  \E i \in 1..Len(results) :
     /\ results[i].success
     /\ Len(calls[i].list) = 2
     /\ rules[1].replacement = rules[1].pattern
     /\ \E p \in 1..Len(results[i].original) : results[i].original[p] = "fn"
     /\ calls[i].list[1].output = calls[i].list[1].input
     /\ calls[i].list[2].output # calls[i].list[2].input
     /\ results[i].applied = <<rules[2].description>>

\* the steps the run has started
StartedSteps == {events[p].step : p \in {q \in 1..Len(events) : events[q].kind = "step_start"}}

\* whether _log_migration_results has run for the step
Reported(n) == \E p \in 1..Len(events) : events[p].kind = "report" /\ events[p].step = n

\* C13: when a run that got past path resolution has returned, the report
\* (files processed, files modified, rules applied, errors, warnings) has been
\* emitted for every step it started, whatever made a step fail: precondition,
\* pre-hook, failed file or post-hook.
C13_ReportAlwaysEmitted ==
  (pc = "returned" /\ StartedSteps # {})
    => \A n \in StartedSteps : Reported(n)

\* whether a step of the resolved path holds a rule that validate_transformation
\* rejects
PathHoldsInvalidRule ==
  \E n \in 1..Len(path) :
     /\ path[n] \in MigrationRegistry
     /\ \E k \in 1..Len(StepRules(path[n])) : ~ValidateTransformation(StepRules(path[n])[k])

\* C14: when a step of the resolved path holds a rule that fails validation,
\* the run fails and no step of the run has written a file: the project is as
\* it was before the run.
C14_InvalidRuleBeforeAnyWrite ==
  (pc = "returned" /\ path # <<>> /\ PathHoldsInvalidRule)
    => /\ result = "False"
       /\ \A f \in AllFiles : WritesTo(f) = {}
       /\ disk = disk0

\* the versions of the bevy dependency a manifest declares
DeclaredVersions(text) == {text[i] : i \in {j \in 1..Len(text) : text[j] \in VersionToks}}

\* the project as migrate found it has no manifest, or one that declares
\* another version than from_version
NotMigratable ==
  \/ disk0[CargoToml] = Absent
  \/ /\ DeclaredVersions(disk0[CargoToml]) # {}
     /\ fromV \notin DeclaredVersions(disk0[CargoToml])

\* what a step does once its preconditions are passed, and the final update
StepWorkKinds ==
  {"prehook_ok", "prehook_failed", "file_processed", "file_failed", "write",
   "posthook_ok", "posthook_write", "posthook_failed", "report", "version_update"}

\* C15: a run of migrate on a project whose manifest is missing or declares
\* another version than from_version executes no hook and writes no file,
\* and fails.
C15_NotMigratableFailsBeforeSteps ==
  (pc \notin {"idle", "summary"} /\ NotMigratable)
    => /\ EventKinds(1, Len(events)) \cap StepWorkKinds = {}
       /\ disk = disk0
       /\ hookBackup = NoHookBackup
       /\ pc = "returned" => result = "False"

Occurrences(pattern, text) == {s \in 1..Len(text) : StructEnd(pattern, text, s) # -1}

\* the text with the one occurrence of the rule's pattern replaced by the
\* rule's replacement, every metavariable of it replaced by what it captured
SubstitutedOnce(text, rule) ==
  LET s == CHOOSE o \in Occurrences(rule.pattern, text) : TRUE
  IN SubSeq(text, 1, s - 1)
       \o FillMulti(FillTemplate(rule.replacement, SingleBindings(rule.pattern, text, s)),
                    MultiBindings(rule.pattern, text, s))
       \o SubSeq(text, StructEnd(rule.pattern, text, s), Len(text))

\* C17: a rule applied to a text with exactly one occurrence of its pattern
\* yields the text with that span replaced by the replacement in which every
\* metavariable, single or multi, stands for what it captured, whichever
\* backend serves the call.
C17_SubstitutionCorrect ==
  \A i \in 1..Len(results) : \A k \in 1..Len(calls[i].list) :
     LET c == calls[i].list[k]
     IN Cardinality(Occurrences(rules[c.rule].pattern, c.input)) = 1
          => c.output = SubstitutedOnce(c.input, rules[c.rule])

\* whether the sequence sub occurs in the sequence s
Contains(s, sub) ==
  \E p \in 1..(Len(s) - Len(sub) + 1) : SubSeq(s, p, p + Len(sub) - 1) = sub

\* C18: a rule whose replacement does not contain its pattern, applied to its
\* own output, changes nothing: the second pass returns its input.
C18_Idempotent ==
  \A i \in 1..Len(results) : \A k \in 2..Len(calls[i].list) :
     LET first == calls[i].list[k - 1]
         second == calls[i].list[k]
     IN (/\ rules[first.rule] = rules[second.rule]
         /\ second.input = first.output
         /\ ~Contains(rules[second.rule].replacement, rules[second.rule].pattern))
          => second.output = second.input

\* how the backend calls made for the i-th file ended, per rule of the list
OutcomesOf(i) ==
  [k \in 1..Len(rules) |->
     IF \E n \in 1..Len(calls[i].list) :
          calls[i].list[n].rule = k /\ calls[i].list[n].outcome # "unavailable"
     THEN calls[i].list[CHOOSE n \in 1..Len(calls[i].list) : calls[i].list[n].rule = k].outcome
     ELSE "ok"]

\* the result of the i-th file as its own content before the run, the rules
\* and its own I/O make it
OwnResult(i) ==
  LET f == files[i]
      acc == TransformLoop(rules, 1, f, astAvail, OutcomesOf(i),
                           [text |-> disk0[f], applied |-> <<>>, calls |-> <<>>])
  IN IF calls[i].raised = "none"
     THEN TransformationResult(f, disk0[f], acc.text, acc.applied, TRUE, "")
     ELSE TransformationResult(f, <<>>, <<>>, <<>>, FALSE, calls[i].raised)

\* the content the i-th file ends with, as its own result makes it
OwnContent(i) ==
  IF OwnResult(i).success /\ ShouldWrite(dryRun, disk0[files[i]], OwnResult(i).transformed)
  THEN OwnResult(i).transformed ELSE disk0[files[i]]

\* the orders a list of n results can be put in
Orders(n) == { p \in [1..n -> 1..n] : \A i, j \in 1..n : p[i] = p[j] => i = j }

\* C19: in whatever order the files of the list are processed, the result and
\* the final content of a file are those its own content, the rules and its
\* own I/O give, no other file having a part in them; every file of the list
\* gets its result; and the counts over the results are the same for every
\* order of the results.
C19_FilesIndependent ==
  /\ \A i \in 1..Len(results) :
        /\ results[i] = OwnResult(i)
        /\ disk[files[i]] = OwnContent(i)
  /\ \A j \in (Len(results) + 1)..Len(files) : disk[files[j]] = disk0[files[j]]
  /\ pc = "posthook" => Len(results) = Len(files)
  /\ \A p \in Orders(Len(results)) :
        MigrationCounts([i \in 1..Len(results) |-> results[p[i]]])
          = MigrationCounts(results)

\* the manifest processed before the Rust file: the first failed on its
\* write, the second was rewritten
C19_Witness ==
  /\ pc = "posthook"
  /\ files[1] = CargoToml
  /\ ~results[1].success
  /\ calls[1].raised = "write"
  /\ results[Len(files)].success
  /\ disk[files[Len(files)]] # disk0[files[Len(files)]]
  /\ MigrationCounts(results).files_modified = 1
  /\ MigrationCounts(results).errors = 1

\* whether an event of one of the kinds precedes the p-th event in its step
PrecededInStep(p, kinds) ==
  \E q \in 1..(p - 1) : events[q].step = events[p].step /\ events[q].kind \in kinds

\* C20: in every step the pre-hook runs first, then the step's file set is
\* discovered, then the engine passes over the files, then the post-hook runs:
\* the file set is not there before the pre-hook has run, a file is processed
\* only after the pre-hook succeeded, and the post-hook comes after the files.
C20_PhaseOrder ==
  /\ (pc = "prehook" /\ stepIdx = 1) => files = <<>>
  /\ \A p \in 1..Len(events) :
        /\ events[p].kind = "no_files"
             => PrecededInStep(p, {"prehook_ok"})
        /\ events[p].kind \in {"file_processed", "file_failed"}
             => PrecededInStep(p, {"prehook_ok"})
        /\ events[p].kind \in {"posthook_ok", "posthook_failed"}
             => /\ PrecededInStep(p, {"prehook_ok"})
                /\ \A q \in (p + 1)..Len(events) :
                      events[q].step = events[p].step
                        => events[q].kind \notin {"file_processed", "file_failed", "write"}

\* C21: the regex backend serves a call only when the structural backend is
\* not installed or its call ended with a non-zero exit, a timeout or malformed
\* output; a call the structural backend completed is served by it, and the
\* regex backend's replacement is not applied.
C21_FallbackOnlyWhenUnavailable ==
  \A i \in 1..Len(results) : \A k \in 1..Len(calls[i].list) :
     LET c == calls[i].list[k]
     IN /\ c.served = "regex" => c.outcome \in BadOutcomes \cup {"unavailable"}
        /\ c.outcome = "ok"
             => /\ c.served = "structural"
                /\ c.output = ApplyAstGrepTransformation(c.input, rules[c.rule], "ok").text

RECURSIVE SpansReplaced(_, _, _, _)
\* the text read left to right from pos on, the span of every match replaced
\* by what the callback returns for it and every other node kept
SpansReplaced(cb, pattern, text, pos) ==
  IF pos > Len(text) THEN <<>>
  ELSE IF StructMatchAt(pattern, text, pos)
       THEN CallbackText(cb, SingleBindings(pattern, text, pos))
              \o SpansReplaced(cb, pattern, text, pos + Len(pattern))
  ELSE <<text[pos]>> \o SpansReplaced(cb, pattern, text, pos + 1)

\* the calls a callback rule's structural pass served
SplicedCalls ==
  { c \in UNION { {calls[i].list[k] : k \in 1..Len(calls[i].list)} : i \in 1..Len(calls) } :
      rules[c.rule].callback # "none" /\ c.served = "structural" }

\* C22: the matches of one callback rule are spliced in one pass in descending
\* start order, so that the result is the original text with every matched span
\* replaced by the callback's text for it and everything outside the spans
\* unchanged.
C22_SpliceReplacesEverySpan ==
  \A c \in SplicedCalls :
     c.output = SpansReplaced(rules[c.rule].callback, rules[c.rule].pattern, c.input, 1)

C22_Witness ==
  \E c \in SplicedCalls :
     /\ Len(StructMatches(rules[c.rule].pattern, c.input, 1)) >= 2
     /\ c.output # c.input

\* the name under which a callback looks up the text of the whole match
MatchedTextKey == "_matchedText"

\* C23: every callback invocation receives the full binding set of its match:
\* every metavariable of the pattern, single and multi, and under _matchedText
\* the text of the whole matched span.
C23_CallbackGetsFullBindings ==
  \A c \in SplicedCalls :
     LET pattern == rules[c.rule].pattern
         ms == StructMatches(pattern, c.input, 1)
     IN \A n \in 1..Len(ms) :
          LET b == CallbackMetaVars(pattern, c.input, ms[n])
          IN /\ \A k \in 1..Len(pattern) :
                   pattern[k] \in SingleMeta \cup MultiMeta => pattern[k] \in DOMAIN b
             /\ MatchedTextKey \in DOMAIN b
             /\ b[MatchedTextKey] = SubSeq(c.input, ms[n], ms[n] + Len(pattern) - 1)

\* the path of the run was resolved: migrate got past _validate_versions and
\* _create_backup, or get_migration_summary was called
PathResolved ==
  /\ pc # "idle"
  /\ \A i \in 1..Len(events) : events[i].kind \notin {"versions_rejected", "backup_failed"}

\* C24: the version chain is complete and consistent: for every pair of
\* supported versions that _validate_versions accepts, the resolved path is not
\* empty, starts at the source version, ends at the target version, links each
\* step to the next, has at most MaxPathLen steps, and every step of it is a key
\* of the registry.
C24_ChainCompleteAndConsistent ==
  (PathResolved /\ ValidateVersions(fromV, toV))
    => /\ Len(path) \in 1..MaxPathLen
       /\ path[1][1] = fromV
       /\ path[Len(path)][2] = toV
       /\ \A i \in 1..(Len(path) - 1) : path[i][2] = path[i + 1][1]
       /\ \A i \in 1..Len(path) : path[i] \in MigrationRegistry
       /\ \A i \in 1..Len(events) : events[i].kind # "no_path"

\* a run of migrate over the whole chain, intermediate tags included
C24_Witness ==
  /\ PathResolved /\ pc = "validate"
  /\ ValidateVersions(fromV, toV)
  /\ fromV = "0.12" /\ toV = "0.18"
  /\ Len(path) = Len(ChainTags) - 1

\* the target was reached: the walk started there or its last step led there
TargetReached ==
  \/ fromV = toV
  \/ events # <<>> /\ events[Len(events)].text = <<toV>>

\* what holds of the walk at every moment and of what it returns
PathWalkBounded ==
  /\ Len(events) <= MaxPathLen + 1
  /\ pc = "resolving" => Len(path) = Len(events) /\ Len(path) <= MaxPathLen
  /\ pc = "resolved"
       => /\ ~TargetReached => path = <<>>
          /\ path = GetMigrationPath(progression, fromV, toV)

\* C25: path resolution terminates for every progression map, one with a cycle
\* included: it returns after appending at most MaxPathLen + 1 steps, and with
\* the empty path when the target was not reached.
C25_PathResolutionTerminates ==
  /\ []PathWalkBounded
  /\ <>(pc = "resolved")

\* a walk round a cycle that was cut off by the safety check
C25_Witness ==
  /\ pc = "resolved"
  /\ Len(events) = MaxPathLen + 1
  /\ progression[progression[fromV]] = fromV
  /\ path = <<>>

\* the kinds of the events of the step at position i of the path
KindsOfStep(i) == {events[n].kind : n \in {m \in 1..Len(events) : events[m].step = i}}

\* the steps that have returned
ReturnedSteps ==
  {events[n].step : n \in {m \in 1..Len(events) :
                             events[m].kind \in {"step_ok", "step_failed"}}}

\* C26: a step returns success exactly when its preconditions hold and either
\* no file was discovered, or the pre-hook succeeded, every file result is
\* successful and the post-hook succeeded; a step that failed (a failed file or
\* post-hook included) ends the run with False, no later step is started, and
\* what the step wrote before stays written.
C26_StepSuccessIff ==
  \A i \in ReturnedSteps :
     LET ks == KindsOfStep(i)
     IN
     /\ "step_ok" \in ks
          <=> /\ "precond_failed" \notin ks
              /\ \/ "no_files" \in ks
                 \/ /\ "prehook_ok" \in ks
                    /\ "file_failed" \notin ks
                    /\ "posthook_ok" \in ks
     /\ ("step_ok" \in ks) # ("step_failed" \in ks)
     /\ "step_failed" \in ks
          => /\ pc = "returned" /\ result = "False"
             /\ \A n \in 1..Len(events) : events[n].step <= i
             /\ \A n \in 1..Len(events) :
                   events[n].kind = "write" /\ events[n].step = i
                     => disk[events[n].file] = events[n].text

\* a step that wrote one file, failed on another, ran its post-hook and failed
C26_Witness ==
  \E i \in ReturnedSteps :
     {"step_failed", "file_failed", "write", "posthook_ok"} \subseteq KindsOfStep(i)

\* the position of the first event of one of the kinds, 0 if there is none
FirstOf(kinds) ==
  LET at == {n \in 1..Len(events) : events[n].kind \in kinds}
  IN IF at = {} THEN 0 ELSE CHOOSE n \in at : \A m \in at : n <= m

\* C27: in a run that is not a dry run, no step is executed and no project
\* file is written unless the backup was created before, holding the project
\* as it was; when the backup fails migrate returns False with the project
\* files unchanged and no step started.
C27_BackupBeforeAnyWrite ==
  (~dryRun /\ pc \notin {"idle", "summary"})
    => LET work == FirstOf({"step_start"} \cup WriteKinds)
           made == FirstOf({"backup"})
       IN /\ (work # 0 \/ disk # disk0)
               => /\ made # 0
                  /\ made < work
                  /\ backup.made
                  /\ backup.content = disk0
          /\ FirstOf({"backup_failed"}) # 0
               => /\ pc = "returned" /\ result = "False"
                  /\ disk = disk0
                  /\ work = 0

\* a real run that has written a file
C27_Witness ==
  /\ ~dryRun
  /\ FirstOf({"write"}) # 0
  /\ disk # disk0
  /\ backup.made

\* a real run whose backup failed
C27_BackupFailed ==
  /\ ~dryRun
  /\ FirstOf({"backup_failed"}) # 0

\* the paths under the backup directory
UnderBackupDir == {CopyPath(backupDir, f) : f \in AllFiles}

\* C28: the backup copies are never migrated, whatever the backup directory
\* (the default one or the caller's, inside the project tree or not): no file
\* under the backup directory is discovered by a step, and none is written.
C28_BackupNeverMigrated ==
  /\ \A i \in 1..Len(files) : files[i] \notin UnderBackupDir
  /\ \A n \in 1..Len(events) : events[n].file \notin UnderBackupDir
  /\ backup.made => backup.content = disk0

\* every backend call of a rule list going through
AllOk(rs) == [k \in 1..Len(rs) |-> "ok"]

\* what the engine makes of the text of file f with the rules of a step
EngineText(key, f, text) ==
  TransformLoop(StepRules(key), 1, f, astAvail, AllOk(StepRules(key)),
                [text |-> text, applied |-> <<>>, calls |-> <<>>]).text

RECURSIVE RealRunDisk(_, _)
\* the project after the first n steps of the path in a run that is not a dry
\* run and in which nothing fails: per step the engine's texts written to the
\* files of the step, then the post-hook's Cargo.toml
RealRunDisk(d0, n) ==
  IF n = 0 THEN d0
  ELSE LET d == RealRunDisk(d0, n - 1)
           key == path[n]
           fs == SeqRange(GetFilesToProcess(key, d))
           e == [f \in AllFiles |-> IF f \in fs THEN EngineText(key, f, d[f]) ELSE d[f]]
       IN IF fs # {} /\ e[CargoToml] # Absent /\ PostHookWrites(key, e[CargoToml], FALSE)
          THEN [e EXCEPT ![CargoToml] = PostHookCargo(key, e[CargoToml], FALSE)]
          ELSE e

\* the results of the current step for which no I/O call raised and every
\* backend call went through
CleanResults ==
  {i \in 1..Len(results) :
     /\ results[i].success
     /\ \A k \in 1..Len(calls[i].list) :
          calls[i].list[k].outcome \in {"ok", "unavailable"}}

\* the transformed text every clean result of the current step reports is the
\* text the real run has for that file at that step
ReportsRealRunText ==
  pc \in {"engine", "posthook"}
    => \A i \in CleanResults :
          results[i].transformed
            = EngineText(path[stepIdx], results[i].file,
                         RealRunDisk(disk0, stepIdx - 1)[results[i].file])

\* the real run reports its own texts (no hook or I/O call having failed)
RealRunReportsItsTexts == ~dryRun => ReportsRealRunText

\* C29: a dry run reports what the real run would do: for every project and
\* every path, of several steps too, the transformed text each step reports
\* for a file under dryRun = TRUE is the text the real run has for it.
C29_DryRunReportsRealRun == dryRun => ReportsRealRunText

\* the steps of the path that were started
StartedStepKeys ==
  {path[events[n].step] : n \in {m \in 1..Len(events) : events[m].kind = "step_start"}}

\* C30: every rule of every registered step passes validate_transformation, a
\* callback rule with an empty replacement included, so that no step that is
\* run is rejected by its own catalog: its preconditions fail only for want of
\* Cargo.toml or of the src directory.
C30_CatalogPassesValidation ==
  /\ \A key \in StartedStepKeys :
        key \in MigrationRegistry
          => \A k \in 1..Len(StepRules(key)) : ValidateTransformation(StepRules(key)[k])
  /\ \A n \in 1..Len(events) :
        events[n].kind = "precond_failed" => (disk0[CargoToml] = Absent \/ ~srcDir)

====
